---- MODULE Spec2Model ----
(***************************************************************************)
(* Model of the ICPSimpleBank canister                                     *)
(* (src/icp_rust_boilerplate_backend/src/lib.rs).                          *)
(*                                                                         *)
(* The canister keeps one State value (a map from account id to Account)   *)
(* in stable storage.  Every entry point restores the State, works on its  *)
(* private copy and, when it mutates, saves the copy back.  The hosting    *)
(* runtime executes one message at a time, so every entry point is one     *)
(* action.  The runtime's clock (ic_cdk::api::time) is the same for all    *)
(* messages executed in one round and advances between rounds.             *)
(*                                                                         *)
(* Balances are f64 in the source.  They are modelled as integers: every   *)
(* amount of the model is an integer far below 2^53, where f64 arithmetic  *)
(* is exact.  An amount that is NaN or +infinity fails `amount <= 0.0` and *)
(* fails `balance >= amount` for every finite balance, exactly like the    *)
(* amount HugeAmount of the model, which exceeds every reachable balance.  *)
(***************************************************************************)
EXTENDS Integers, FiniteSets, Sequences, TLC

VARIABLES
    stable,     \* the snapshot in stable storage: [present, accounts]
    time,       \* ic_cdk::api::time() of the round being executed
    last,       \* the call whose reply is on its way to the caller: its
                \* arguments, its reply and the snapshot before it
    running     \* the messages that have restored the State and not yet
                \* returned, each with the State it restored

vars == <<stable, time, last, running>>

----------------------------------------------------------------------------
(* Bounds of the model *)

MaxTime == 2

(* make_account is not called when the ledger already holds MaxGrants       *)
(* initial grants: deleting and recreating accounts would otherwise let the *)
(* balances grow without bound.                                             *)
MaxGrants == 3

(* The messages that may be between get_state and update_state at once, if  *)
(* a handler could yield there                                              *)
MaxRunning == 2

(* Program constants *)

MinPasswordLen == 8
InitialBalance == 100

(* Inputs *)

CanisterId == "canister"

(* More than the ledger can hold *)
HugeAmount == (MaxGrants + 1) * InitialBalance

(* Two passwords that pass validate_password and one that does not; the     *)
(* queries, which treat the empty password apart, get it as well.           *)
Passwords == {"short", "password1", "password2"}

QueryPasswords == Passwords \cup {""}

Amounts == {-InitialBalance, 0, InitialBalance, HugeAmount}

----------------------------------------------------------------------------
(* State::generate_random_string: "<canister id>_<time>".  The canister id  *)
(* is fixed, so the id is determined by, and determines, the time.          *)
generate_random_string(t) == <<CanisterId, t>>

NoId == <<"", 0>>

Ids == {generate_random_string(t) : t \in 0..MaxTime}

(* dest_id arguments: every id the generator can produce within the bound   *)
(* (present in the ledger or not) and one string it never produces.         *)
DestIds == Ids \cup {NoId}

(* An Account that does not record its id *)
Account_without_id(id, password, balance) ==
    [id |-> NoId, password |-> password, balance |-> balance]

(* struct Account *)
Account(id, password, balance) ==
    [id |-> id, password |-> password, balance |-> balance]

(* State::new: no accounts *)
State_new == [i \in {} |-> Account(NoId, "", 0)]

(* HashMap::insert: adds the key or replaces the value stored under it *)
insert(accounts, key, account) ==
    [i \in DOMAIN accounts \cup {key} |-> IF i = key THEN account ELSE accounts[i]]

(* HashMap::remove *)
remove(accounts, key) ==
    [i \in DOMAIN accounts \ {key} |-> accounts[i]]

(* HashMap::contains_key *)
contains_key(accounts, key) == key \in DOMAIN accounts

(* init: saves a new, empty State *)
init_state == [present |-> TRUE, accounts |-> State_new]

(* Stable storage whose bytes stable_restore cannot decode: `accounts`      *)
(* stands for those bytes, which are not a State of the canister.           *)
unreadable_state ==
    [present |-> FALSE, accounts |-> insert(State_new, NoId, Account(NoId, "", 0))]

(* A get_state that uses whatever stable storage holds *)
get_state_unchecked(st) == st.accounts

(* get_state: the restored State, or a new State when none can be restored *)
get_state(st) == IF st.present THEN st.accounts ELSE State_new

(* update_state: replaces the snapshot *)
update_state(new_state) == [present |-> TRUE, accounts |-> new_state]

(* A validate_password that lets every password through *)
validate_password_any(password) == TRUE

(* validate_password: Ok iff the password has at least 8 bytes *)
validate_password(password) == Len(password) >= MinPasswordLen

(* A validate_amount that lets every amount through *)
validate_amount_any(amount) == TRUE

(* A validate_amount that lets 0 through *)
validate_amount_zero_ok(amount) == ~(amount < 0)

(* validate_amount: Ok iff not amount <= 0.0 *)
validate_amount(amount) == ~(amount <= 0)

(* A search that does not compare the password *)
find_any(accounts, password) == DOMAIN accounts

(* accounts.iter().find(|(_, acc)| acc.password == password): the ids the   *)
(* search may return.  A HashMap iterates in an unspecified order, so any   *)
(* matching account may be the first one found; none matching is None.      *)
find_by_password(accounts, password) ==
    {i \in DOMAIN accounts : accounts[i].password = password}

----------------------------------------------------------------------------
(* What a call leaves behind: its reply (result, id and value carried by    *)
(* the reply text), whether it reached get_state and update_state, and the  *)
(* snapshot in stable storage when it returns.                              *)
Reply(result, id, value, loaded, saved, st) ==
    [result |-> result, id |-> id, value |-> value,
     loaded |-> loaded, saved |-> saved, stable |-> st]

(* A sufficiency check that never fails *)
sufficient_unchecked(balance, amount) == TRUE

(* src.balance >= amount *)
sufficient(balance, amount) == balance >= amount

(* A deduction that is lost *)
debit_lost(accounts, src_id, amount) == accounts

(* src.balance -= amount *)
debit(accounts, src_id, amount) ==
    [accounts EXCEPT ![src_id].balance = @ - amount]

(* A credit that is lost *)
credit_lost(accounts, dest_id, amount) == accounts

(* dest.balance += amount *)
credit(accounts, dest_id, amount) ==
    [accounts EXCEPT ![dest_id].balance = @ + amount]

(* The balance the reply of a successful transfer reports: src.balance as   *)
(* read right after the deduction, before the destination is credited.      *)
reported_src_balance(debited, credited, src_id) == debited[src_id].balance

(* make_account *)
make_account(st, t, password) ==
    IF ~validate_password(password)
    THEN {Reply("PasswordTooShort", NoId, 0, FALSE, FALSE, st)}
    ELSE LET state == get_state(st)
             random_id == generate_random_string(t)
             account == Account(random_id, password, InitialBalance)
         IN {Reply("Ok", random_id, 0, TRUE, TRUE,
                   update_state(insert(state, random_id, account)))}

(* account_info *)
account_info(st, password) ==
    LET state == get_state(st)
        found == find_by_password(state, password)
    IN IF password = ""
       THEN {Reply("EmptyPassword", NoId, 0, TRUE, FALSE, st)}
       ELSE IF found = {}
       THEN {Reply("AccountNotFound", NoId, 0, TRUE, FALSE, st)}
       ELSE {Reply("Ok", state[i].id, state[i].balance, TRUE, FALSE, st) : i \in found}

(* check_account *)
check_account(st, dest_id) ==
    LET state == get_state(st)
    IN IF contains_key(state, dest_id)
       THEN {Reply("Ok", dest_id, 0, TRUE, FALSE, st)}
       ELSE {Reply("AccountDoesNotExist", dest_id, 0, TRUE, FALSE, st)}

(* transfer_money, the (Some(src_id), Some(dest_id)) arm *)
transfer_found(st, state, src_id, dest_id, amount) ==
    IF sufficient(state[src_id].balance, amount)
    THEN LET debited == debit(state, src_id, amount)
         IN IF ~contains_key(debited, dest_id)
            THEN Reply("Trap", src_id, 0, TRUE, FALSE, st)    \* unwrap on None
            ELSE LET credited == credit(debited, dest_id, amount)
                 IN Reply("Ok", src_id,
                          reported_src_balance(debited, credited, src_id),
                          TRUE, TRUE, update_state(credited))
    ELSE Reply("InsufficientBalance", src_id, 0, TRUE, FALSE, st)

(* transfer_money *)
transfer_money(st, password, amount, dest_id) ==
    IF ~validate_password(password)
    THEN {Reply("PasswordTooShort", NoId, 0, FALSE, FALSE, st)}
    ELSE IF ~validate_amount(amount)
    THEN {Reply("InvalidAmount", NoId, 0, FALSE, FALSE, st)}
    ELSE LET state == get_state(st)
             source_account_id == find_by_password(state, password)
         IN IF source_account_id = {} \/ ~contains_key(state, dest_id)
            THEN {Reply("TransferNotFound", NoId, 0, TRUE, FALSE, st)}
            ELSE {transfer_found(st, state, src_id, state[dest_id].id, amount)
                    : src_id \in source_account_id}

(* delete_account *)
delete_account(st, password) ==
    LET state == get_state(st)
        account_id == find_by_password(state, password)
    IN IF account_id = {}
       THEN {Reply("AccountNotFound", NoId, 0, TRUE, FALSE, st)}
       ELSE {Reply("Ok", id, 0, TRUE, TRUE, update_state(remove(state, id)))
               : id \in account_id}

(* update_password *)
update_password(st, old_password, new_password) ==
    IF ~validate_password(new_password)
    THEN {Reply("PasswordTooShort", NoId, 0, FALSE, FALSE, st)}
    ELSE LET state == get_state(st)
             account_id == find_by_password(state, old_password)
         IN IF account_id = {}
            THEN {Reply("AccountNotFound", NoId, 0, TRUE, FALSE, st)}
            ELSE {Reply("Ok", id, 0, TRUE, TRUE,
                        update_state([state EXCEPT ![id].password = new_password]))
                    : id \in account_id}

(* get_balance *)
get_balance(st, password) ==
    LET state == get_state(st)
        found == find_by_password(state, password)
    IN IF password = ""
       THEN {Reply("EmptyPassword", NoId, 0, TRUE, FALSE, st)}
       ELSE IF found = {}
       THEN {Reply("AccountNotFound", NoId, 0, TRUE, FALSE, st)}
       ELSE {Reply("Ok", NoId, state[i].balance, TRUE, FALSE, st) : i \in found}

----------------------------------------------------------------------------
(* The record of a call *)
Called(op, password, new_password, amount, dest_id, out) ==
    [op |-> op, password |-> password, new_password |-> new_password,
     amount |-> amount, dest_id |-> dest_id,
     result |-> out.result, id |-> out.id, value |-> out.value,
     loaded |-> out.loaded, saved |-> out.saved, pre |-> stable]

NoCall ==
    [op |-> "none", password |-> "", new_password |-> "", amount |-> 0,
     dest_id |-> NoId, result |-> "None", id |-> NoId, value |-> 0,
     loaded |-> FALSE, saved |-> FALSE, pre |-> init_state]

(* No reply is on its way: the canister takes the next message *)
Idle == last.op = "none"

(* The sum of the balances of a ledger *)
RECURSIVE Total(_)
Total(accounts) ==
    IF DOMAIN accounts = {} THEN 0
    ELSE LET i == CHOOSE j \in DOMAIN accounts : TRUE
         IN accounts[i].balance + Total(remove(accounts, i))

(* The canister is installed and init has run; or the canister code was    *)
(* put, by an upgrade, on stable storage that holds no State it can restore *)
(* (an upgrade does not run init).                                          *)
Init ==
    /\ stable \in {init_state, unreadable_state}
    /\ time = 0
    /\ last = NoCall
    /\ running = {}

(* A call is executed as one message; its effect on stable storage and its  *)
(* reply are those of one outcome of the handler.                           *)
Do(op, password, new_password, amount, dest_id, outcomes) ==
    \E out \in outcomes :
        /\ Idle
        /\ stable' = out.stable
        /\ last' = Called(op, password, new_password, amount, dest_id, out)
        /\ UNCHANGED <<time, running>>

(* The canister is reinstalled: init runs *)
DoInit ==
    Do("init", "", "", 0, NoId, {Reply("Ok", NoId, 0, FALSE, TRUE, init_state)})

DoMakeAccount ==
    \E password \in Passwords :
        /\ Total(get_state(stable)) + InitialBalance <= MaxGrants * InitialBalance
        /\ Do("make_account", password, "", 0, NoId,
              make_account(stable, time, password))

DoAccountInfo ==
    \E password \in QueryPasswords :
        Do("account_info", password, "", 0, NoId, account_info(stable, password))

DoCheckAccount ==
    \E dest_id \in DestIds :
        Do("check_account", "", "", 0, dest_id, check_account(stable, dest_id))

DoTransferMoney ==
    \E password \in Passwords, amount \in Amounts, dest_id \in DestIds :
        Do("transfer_money", password, "", amount, dest_id,
           transfer_money(stable, password, amount, dest_id))

DoDeleteAccount ==
    \E password \in Passwords :
        Do("delete_account", password, "", 0, NoId, delete_account(stable, password))

DoUpdatePassword ==
    \E old_password \in Passwords, new_password \in Passwords :
        Do("update_password", old_password, new_password, 0, NoId,
           update_password(stable, old_password, new_password))

DoGetBalance ==
    \E password \in QueryPasswords :
        Do("get_balance", password, "", 0, NoId, get_balance(stable, password))

(* The reply reaches the caller *)
Return ==
    /\ ~Idle
    /\ last' = NoCall
    /\ UNCHANGED <<stable, time, running>>

(* The next round starts: the runtime's clock advances *)
Tick ==
    /\ Idle
    /\ running = {}
    /\ time < MaxTime
    /\ time' = time + 1
    /\ UNCHANGED <<stable, last, running>>

Next ==
    \/ DoInit
    \/ DoMakeAccount
    \/ DoAccountInfo
    \/ DoCheckAccount
    \/ DoTransferMoney
    \/ DoDeleteAccount
    \/ DoUpdatePassword
    \/ DoGetBalance
    \/ Return
    \/ Tick

Spec == Init /\ [][Next]_vars

----------------------------------------------------------------------------
(* Stable storage that can refuse a write.                                  *)

(* A save whose failure is ignored: the call replies as if it had saved *)
failed_save_ignored(st, out) == [out EXCEPT !.stable = st, !.saved = FALSE]

(* update_state when stable_save fails: expect panics, the message traps,   *)
(* the caller gets no Ok and the runtime discards what the message wrote.   *)
failed_save(st, out) ==
    Reply("SaveFailed", out.id, 0, out.loaded, FALSE, st)

(* The outcomes of a handler that end in update_state, with the save failing *)
SaveFailures(st, outcomes) ==
    {failed_save(st, out) : out \in {o \in outcomes : o.saved}}

DoInitSaveFails ==
    Do("init", "", "", 0, NoId,
       SaveFailures(stable, {Reply("Ok", NoId, 0, FALSE, TRUE, init_state)}))

DoMakeAccountSaveFails ==
    \E password \in Passwords :
        /\ Total(get_state(stable)) + InitialBalance <= MaxGrants * InitialBalance
        /\ Do("make_account", password, "", 0, NoId,
              SaveFailures(stable, make_account(stable, time, password)))

DoTransferMoneySaveFails ==
    \E password \in Passwords, amount \in Amounts, dest_id \in DestIds :
        Do("transfer_money", password, "", amount, dest_id,
           SaveFailures(stable, transfer_money(stable, password, amount, dest_id)))

DoDeleteAccountSaveFails ==
    \E password \in Passwords :
        Do("delete_account", password, "", 0, NoId,
           SaveFailures(stable, delete_account(stable, password)))

DoUpdatePasswordSaveFails ==
    \E old_password \in Passwords, new_password \in Passwords :
        Do("update_password", old_password, new_password, 0, NoId,
           SaveFailures(stable, update_password(stable, old_password, new_password)))

NextSaveFails ==
    \/ Next
    \/ DoInitSaveFails
    \/ DoMakeAccountSaveFails
    \/ DoTransferMoneySaveFails
    \/ DoDeleteAccountSaveFails
    \/ DoUpdatePasswordSaveFails

SpecSaveFails == Init /\ [][NextSaveFails]_vars

----------------------------------------------------------------------------
(* The ledger before the last call and the ledger it left *)
Pre == get_state(last.pre)
Post == get_state(stable)

Transferred == last.op = "transfer_money" /\ last.result = "Ok"

(* The accounts of a ledger whose stored credential is the given secret *)
HoldersOf(accounts, secret) ==
    {i \in DOMAIN accounts : accounts[i].password = secret}

(* C1: a successful transfer between two distinct accounts, the source A    *)
(* resolved by the secret and the destination B = dest_id, leaves           *)
(* balance(A) = old balance(A) - x and balance(B) = old balance(B) + x, so   *)
(* balance(A) + balance(B) is what it was before.                           *)
C1_TransferConserves ==
    (Transferred /\ last.id # last.dest_id) =>
        /\ {last.id, last.dest_id} \subseteq DOMAIN Pre \cap DOMAIN Post
        /\ Post[last.id].balance = Pre[last.id].balance - last.amount
        /\ Post[last.dest_id].balance = Pre[last.dest_id].balance + last.amount
        /\ Post[last.id].balance + Post[last.dest_id].balance
             = Pre[last.id].balance + Pre[last.dest_id].balance

C1_Witness ==
    /\ Transferred
    /\ last.id # last.dest_id
    /\ Pre[last.dest_id].balance > 0
    /\ last.amount > 0

(* C2: in every persisted ledger every account's balance is >= 0.           *)
C2_BalancesNonNegative ==
    \A i \in DOMAIN Post : Post[i].balance >= 0

C2_Witness ==
    /\ Transferred
    /\ last.id # last.dest_id
    /\ Post[last.id].balance = 0
    /\ Cardinality(DOMAIN Post) = 3

(* C3: when source and destination both resolve and the source's balance is *)
(* less than the amount, transfer_money fails with InsufficientBalance, the  *)
(* persisted ledger is the one before the call and nothing is saved.  The    *)
(* source is the account the search returned (last.id); when every account   *)
(* the search can return is short of the amount the failure is certain.      *)
C3_InsufficientLeavesLedger ==
    last.op = "transfer_money" =>
        /\ ( /\ last.id \in DOMAIN Pre
             /\ last.dest_id \in DOMAIN Pre
             /\ Pre[last.id].balance < last.amount )
           => ( /\ last.result = "InsufficientBalance"
                /\ stable = last.pre
                /\ ~last.saved )
        /\ ( /\ HoldersOf(Pre, last.password) # {}
             /\ last.dest_id \in DOMAIN Pre
             /\ \A i \in HoldersOf(Pre, last.password) :
                    Pre[i].balance < last.amount )
           => ( /\ last.result = "InsufficientBalance"
                /\ stable = last.pre
                /\ ~last.saved )

C3_Witness ==
    /\ last.op = "transfer_money"
    /\ last.result = "InsufficientBalance"
    /\ last.id \in DOMAIN Pre
    /\ last.dest_id \in DOMAIN Pre
    /\ last.id # last.dest_id
    /\ Pre[last.id].balance > 0
    /\ Pre[last.id].balance < last.amount

C6_MakeAccountAddsOne ==
    (last.op = "make_account" /\ last.result = "Ok") =>
        /\ last.id \notin DOMAIN Pre
        /\ last.id \in DOMAIN Post
        /\ Post[last.id].balance = InitialBalance
        /\ \A i \in DOMAIN Pre : i \in DOMAIN Post /\ Post[i] = Pre[i]
        /\ Cardinality(DOMAIN Post) = Cardinality(DOMAIN Pre) + 1

(* C7: the balance a successful transfer_money returns as the source's new  *)
(* balance is the balance stored for the source in the persisted ledger      *)
(* right after the transfer, for every destination, the source included.     *)
C7_ReportedBalanceIsStored ==
    Transferred =>
        /\ last.id \in DOMAIN Post
        /\ last.value = Post[last.id].balance

(* C8: after delete_account(secret) succeeds on the account with id X,      *)
(* check_account(X) reports that the account does not exist and the next     *)
(* get_balance(secret) fails with AccountNotFound.                           *)
C8_DeletedAccountIsGone ==
    (last.op = "delete_account" /\ last.result = "Ok") =>
        /\ \A o \in check_account(stable, last.id) :
               o.result = "AccountDoesNotExist"
        /\ \A o \in get_balance(stable, last.password) :
               o.result = "AccountNotFound"

(* C9: after update_password(old, new) succeeds on an account,              *)
(* get_balance(old) fails with a not-found error and get_balance(new)        *)
(* succeeds and returns the balance the account had before the rotation.     *)
C9_RotationMovesCredential ==
    (last.op = "update_password" /\ last.result = "Ok") =>
        /\ \A o \in get_balance(stable, last.password) :
               o.result \in {"AccountNotFound", "EmptyPassword"}
        /\ \A o \in get_balance(stable, last.new_password) :
               o.result = "Ok" /\ o.value = Pre[last.id].balance

(* C10: no account of a persisted ledger holds the plaintext secret given   *)
(* to make_account or update_password: what is stored for the account the    *)
(* call wrote differs from the secret itself.                                *)
C10_NoPlaintextSecret ==
    /\ (last.op = "make_account" /\ last.result = "Ok") =>
           Post[last.id].password # last.password
    /\ (last.op = "update_password" /\ last.result = "Ok") =>
           Post[last.id].password # last.new_password

----------------------------------------------------------------------------
(* The handlers step by step: a message restores the State (get_state) and  *)
(* later runs the rest of its handler on that copy, saving it if the        *)
(* handler reaches update_state.                                            *)

(* A handler that awaits between get_state and update_state *)
handler_yields_before_save == TRUE

(* The handlers are plain fn, not async fn, and call nothing that awaits:   *)
(* the runtime runs a message from its first instruction to its reply       *)
(* before it starts another one.                                            *)
handler_yields == FALSE

Call(op, password, new_password, amount, dest_id, t) ==
    [op |-> op, password |-> password, new_password |-> new_password,
     amount |-> amount, dest_id |-> dest_id, t |-> t]

(* The calls of the #[update] entry points *)
UpdateCalls(t) ==
    {Call("make_account", p, "", 0, NoId, t) : p \in Passwords}
    \cup {Call("transfer_money", p, "", a, d, t)
            : p \in Passwords, a \in Amounts, d \in DestIds}
    \cup {Call("delete_account", p, "", 0, NoId, t) : p \in Passwords}
    \cup {Call("update_password", p, q, 0, NoId, t)
            : p \in Passwords, q \in Passwords}

(* The handler of a call, on the snapshot st *)
Handle(c, st) ==
    CASE c.op = "make_account" -> make_account(st, c.t, c.password)
      [] c.op = "transfer_money" ->
            transfer_money(st, c.password, c.amount, c.dest_id)
      [] c.op = "delete_account" -> delete_account(st, c.password)
      [] c.op = "update_password" ->
            update_password(st, c.password, c.new_password)

(* get_state: the message starts and restores the State *)
LoadStep ==
    \E c \in UpdateCalls(time) :
        /\ Idle
        /\ running = {} \/ handler_yields
        /\ Cardinality(running) < MaxRunning
        /\ c.op = "make_account" =>
              Total(get_state(stable)) + InitialBalance <= MaxGrants * InitialBalance
        /\ running' = running \cup {[call |-> c, snapshot |-> stable]}
        /\ UNCHANGED <<stable, time, last>>

(* The rest of the handler, on the copy restored, up to the reply *)
FinishStep ==
    \E r \in running :
        \E out \in Handle(r.call, r.snapshot) :
            /\ Idle
            /\ stable' = IF out.saved THEN out.stable ELSE stable
            /\ last' = [Called(r.call.op, r.call.password, r.call.new_password,
                               r.call.amount, r.call.dest_id, out)
                          EXCEPT !.pre = r.snapshot]
            /\ running' = running \ {r}
            /\ UNCHANGED time

NextSteps ==
    \/ LoadStep
    \/ FinishStep
    \/ Return
    \/ Tick

SpecSteps == Init /\ [][NextSteps]_vars

(* The call that has just replied, as a call *)
LastCall(t) ==
    Call(last.op, last.password, last.new_password, last.amount, last.dest_id, t)

(* C18: the load-mutate-save of a mutating operation is one indivisible     *)
(* step: when an operation replies, no other operation is between its load   *)
(* and its save and none has written the persisted ledger since it loaded,   *)
(* so the ledger it leaves is the one the handler gives when run alone on    *)
(* the ledger persisted just before it (the calls take effect in a serial    *)
(* order, no update is lost) and no balance is negative.                     *)
C18_LoadMutateSaveIsAtomic ==
    /\ [][ (Idle /\ ~Idle') =>
             /\ last'.pre = stable
             /\ running' = {}
             /\ \E o \in Handle(LastCall(time)', stable) :
                    o.stable = stable' /\ o.result = last'.result ]_vars
    /\ []C2_BalancesNonNegative

C18_Witness ==
    /\ Transferred
    /\ last.id # last.dest_id
    /\ running = {}
    /\ time > 0
    /\ Cardinality(DOMAIN Post) = 3

(* C11: in every persisted ledger each account's id field is the key it is  *)
(* stored under, so no two accounts have the same id, and the key lookups    *)
(* transfer_money and update_password make on the ids they just resolved     *)
(* (the unwrap calls) never fail.                                            *)
C11_IdIsKey ==
    /\ \A i \in DOMAIN Post : Post[i].id = i
    /\ \A i, j \in DOMAIN Post : Post[i].id = Post[j].id => i = j
    /\ last.result # "Trap"
    /\ (last.op \in {"transfer_money", "update_password"} /\ last.result = "Ok")
           => last.id \in DOMAIN Pre

C11_Witness ==
    /\ Transferred
    /\ last.id # last.dest_id
    /\ Cardinality(DOMAIN Post) = 3
    /\ \E i \in DOMAIN Post : Post[i].password # Post[last.id].password

(* C12: the failures of the operations other than transfer_money leave the  *)
(* persisted ledger unchanged and save nothing: make_account with a secret   *)
(* shorter than 8 characters, update_password with a new secret shorter than *)
(* 8 characters or an old secret no account has, delete_account with a       *)
(* secret no account has; and each of these calls does fail.                 *)
C12_FailuresLeaveLedger ==
    /\ (last.op \in {"make_account", "update_password", "delete_account"}
          /\ last.result # "Ok")
       => (stable = last.pre /\ ~last.saved)
    /\ (last.op = "make_account" /\ Len(last.password) < MinPasswordLen)
       => (last.result = "PasswordTooShort" /\ stable = last.pre /\ ~last.saved)
    /\ (last.op = "update_password" /\ Len(last.new_password) < MinPasswordLen)
       => (last.result = "PasswordTooShort" /\ stable = last.pre /\ ~last.saved)
    /\ (last.op = "update_password" /\ Len(last.new_password) >= MinPasswordLen
          /\ HoldersOf(Pre, last.password) = {})
       => (last.result = "AccountNotFound" /\ stable = last.pre /\ ~last.saved)
    /\ (last.op = "delete_account" /\ HoldersOf(Pre, last.password) = {})
       => (last.result = "AccountNotFound" /\ stable = last.pre /\ ~last.saved)

C12_Witness ==
    /\ last.op = "update_password"
    /\ last.result = "PasswordTooShort"
    /\ HoldersOf(Pre, last.password) # {}
    /\ Cardinality(DOMAIN Pre) >= 2

Mutating ==
    last.op \in {"make_account", "transfer_money", "delete_account", "update_password"}

(* C13: when the save at the end of a mutating operation fails, the         *)
(* operation does not report success and the persisted snapshot is the one   *)
(* from before the operation; a transfer is persisted with both sides        *)
(* applied or not at all, and every other operation is persisted only by a   *)
(* completed save.                                                           *)
C13_FailedSaveKeepsSnapshot ==
    Mutating =>
        /\ ~last.saved => (last.result # "Ok" /\ stable = last.pre)
        /\ last.result = "Ok" => last.saved
        /\ last.op = "transfer_money" =>
              \/ stable = last.pre
              \/ /\ DOMAIN Post = DOMAIN Pre
                 /\ \A i \in DOMAIN Pre :
                      Post[i].balance - Pre[i].balance
                        = (IF i = last.dest_id THEN last.amount ELSE 0)
                          - (IF i = last.id THEN last.amount ELSE 0)

C13_Witness ==
    /\ last.op = "transfer_money"
    /\ last.result = "SaveFailed"
    /\ last.id # last.dest_id
    /\ last.id \in DOMAIN Pre
    /\ last.dest_id \in DOMAIN Pre
    /\ Pre[last.id].balance >= last.amount

(* C14: a self-transfer (dest_id is the id of the account the secret        *)
(* resolved) with 0 < amount <= balance succeeds and leaves that account's   *)
(* balance and every other account as before; with amount > balance it      *)
(* fails with InsufficientBalance and changes nothing.                       *)
C14_SelfTransfer ==
    ( /\ last.op = "transfer_money"
      /\ last.id \in DOMAIN Pre
      /\ last.id = last.dest_id )
    => IF last.amount <= Pre[last.id].balance
       THEN /\ last.amount > 0
            /\ last.result = "Ok"
            /\ Post = Pre
       ELSE /\ last.result = "InsufficientBalance"
            /\ stable = last.pre
            /\ ~last.saved

C14_Witness ==
    /\ Transferred
    /\ last.id = last.dest_id
    /\ Pre[last.id].balance > last.amount
    /\ Cardinality(DOMAIN Pre) >= 2

C14_WitnessInsufficient ==
    /\ last.op = "transfer_money"
    /\ last.result = "InsufficientBalance"
    /\ last.id = last.dest_id

(* C15: when no snapshot can be restored, get_state gives an empty ledger   *)
(* and no call fails for it: every call replies as it does on an empty       *)
(* ledger and leaves the snapshot alone, except that a successful            *)
(* make_account persists a ledger holding only the account it created.       *)
C15_AbsentSnapshotIsEmptyLedger ==
    (~Idle /\ ~last.pre.present) =>
        /\ Pre = State_new
        /\ last.result \notin {"Trap", "SaveFailed"}
        /\ last.op \in {"account_info", "get_balance"} =>
              /\ last.result = IF last.password = ""
                               THEN "EmptyPassword" ELSE "AccountNotFound"
              /\ stable = last.pre
        /\ last.op = "check_account" =>
              (last.result = "AccountDoesNotExist" /\ stable = last.pre)
        /\ last.op = "delete_account" =>
              (last.result = "AccountNotFound" /\ stable = last.pre)
        /\ last.op = "update_password" =>
              (last.result \in {"AccountNotFound", "PasswordTooShort"}
                 /\ stable = last.pre)
        /\ last.op = "transfer_money" =>
              (last.result \in {"TransferNotFound", "PasswordTooShort", "InvalidAmount"}
                 /\ stable = last.pre)
        /\ last.op = "make_account" =>
              IF Len(last.password) >= MinPasswordLen
              THEN /\ last.result = "Ok"
                   /\ stable.present
                   /\ DOMAIN Post = {last.id}
                   /\ Post[last.id].id = last.id
                   /\ Post[last.id].password = last.password
                   /\ Post[last.id].balance = InitialBalance
              ELSE last.result = "PasswordTooShort" /\ stable = last.pre

C15_Witness ==
    /\ last.op = "make_account"
    /\ last.result = "Ok"
    /\ ~last.pre.present
    /\ time > 0

(* C16: init stores an empty ledger only if no valid snapshot exists: when  *)
(* a valid snapshot with accounts is persisted, init leaves it unchanged.    *)
C16_InitKeepsSnapshot ==
    (last.op = "init" /\ last.result = "Ok"
       /\ last.pre.present /\ DOMAIN Pre # {})
    => stable = last.pre

(* C17: an account that exists before and after a call keeps its id; its    *)
(* balance changes only in a successful transfer_money in which it is the    *)
(* resolved source or the destination; its credential changes only in a      *)
(* successful update_password that resolved it; account_info, check_account  *)
(* and get_balance change nothing in the persisted ledger.                   *)
C17_FieldsChangeOnlyByTheirOperation ==
    ~Idle =>
        /\ \A i \in DOMAIN Pre \cap DOMAIN Post :
              /\ Post[i].id = Pre[i].id
              /\ Post[i].balance # Pre[i].balance
                    => (Transferred /\ i \in {last.id, last.dest_id})
              /\ Post[i].password # Pre[i].password
                    => (last.op = "update_password" /\ last.result = "Ok"
                          /\ i = last.id)
        /\ last.op \in {"account_info", "check_account", "get_balance"}
              => stable = last.pre

(* C19: a secret matches at most one account of the persisted ledger, so     *)
(* every credential lookup resolves to one account whatever the order the    *)
(* map is iterated in, and the account a successful make_account created is  *)
(* the one its secret resolves to.                                           *)
C19_SecretMatchesOneAccount ==
    /\ \A p \in Passwords : Cardinality(HoldersOf(Post, p)) <= 1
    /\ (last.op = "make_account" /\ last.result = "Ok")
          => \A o \in account_info(stable, last.password) :
                 o.result = "Ok" /\ o.id = last.id

(* C20: the sum of all balances of the persisted ledger grows by exactly    *)
(* 100 in a successful make_account, falls by exactly the removed account's  *)
(* balance in a successful delete_account, and is left unchanged by every    *)
(* transfer_money, update_password and query.                                *)
C20_TotalChangesOnlyByGrantAndDelete ==
    /\ (last.op = "make_account" /\ last.result = "Ok")
          => Total(Post) = Total(Pre) + InitialBalance
    /\ (last.op = "delete_account" /\ last.result = "Ok")
          => Total(Post) = Total(Pre) - Pre[last.id].balance
    /\ (last.op \in {"transfer_money", "update_password", "account_info",
                     "check_account", "get_balance"}
          \/ (last.op \in {"make_account", "delete_account"} /\ last.result # "Ok"))
          => Total(Post) = Total(Pre)

====
